---- MODULE Spec2Model ----
(***************************************************************************)
(* github-tail: scripts/update_projects.py.                                *)
(*                                                                         *)
(* One run of main() is modelled as the steps Start (load the state file,  *)
(* build the query), Fetch (the one HTTP call and its outcomes) and        *)
(* MergeAndWrite (dedup, merge, sort, truncate, assemble output_data,      *)
(* write the state file).  Runs follow one another against the same state  *)
(* file, which starts absent.  The locals of a run keep their last values  *)
(* until the next run sets them; those that main() computes from others    *)
(* (seen_ids, new_repos, new_count, all_projects, ...) are definitions.    *)
(*                                                                         *)
(* Value encodings                                                         *)
(*   None            Python None / a missing key, as -1                    *)
(*   id              an integer 0..MaxId (0 is falsy, like None)           *)
(*   updated_at      None, 0 for the empty string "", or 1..MaxStamp for   *)
(*                   ISO timestamps in lexicographic (= chronological)     *)
(*                   order                                                 *)
(*   last_updated    a record [kind, t]: kind "iso" is the isoformat() of  *)
(*                   the wall clock at tick t (sub-second ticks), "text"   *)
(*                   a string that is no timestamp, "empty" the string "", *)
(*                   "none" Python None                                    *)
(*   stars_query     the sequence of the clauses of the query string       *)
(***************************************************************************)
EXTENDS Integers, Sequences, FiniteSets, TLC

\* ---------------------------------------------------------------- bounds
MaxPage == 2
MaxRuns == 2
MaxClock == 2
MaxCap == 2
MaxId == 1
MaxStamp == 1
TicksPerSec == 2
MaxFails == 1
Unfetched == 1

None == -1

Ids == 0 .. MaxId
Stamps == {None} \cup (0 .. MaxStamp)
Caps == (-1) .. MaxCap
\* The environments tried: the defaults (MAX_RESULTS 50, MIN_STARS 10), and a
\* page size above the API's limit with no popularity threshold.
Envs == {[max_results |-> 50, min_stars |-> 10],
         [max_results |-> 150, min_stars |-> 0]}
ErrorCodes == {403, 404, 500}

\* A raw repository record of the search response, and the pages of them.
RawRepos == [id : Ids, updated_at : Stamps]
SeqsUpTo(S, n) == UNION {[1 .. k -> S] : k \in 0 .. n}
Pages == SeqsUpTo(RawRepos, MaxPage)
\* The JSON bodies of a 200 response: the object without keys, or one with
\* "items" and a "total_count" that counts the matches beyond the page too.
NoKeys == [has_keys |-> FALSE, items |-> <<>>, total_count |-> 0]
Responses ==
    {NoKeys} \cup {[has_keys |-> TRUE, items |-> p, total_count |-> Len(p) + Unfetched] :
                      p \in Pages}

VARIABLES
    file,               \* the state file at out_path
    clock,              \* the wall clock, in sub-second ticks
    pc,                 \* position of the current run of main()
    oks, fails,         \* fetches answered 200, and failed, so far
    max_results, min_stars,     \* environment: MAX_RESULTS, MIN_STARS
    max_total_stored,   \* MAX_TOTAL_STORED as read by the current run
    existing_data,      \* what load_existing_data returned to the current run
    stars_query,        \* the query string of the current run
    status_code,        \* resp.status_code (0: no response)
    data,               \* resp.json() of the latest 200 response
    same_page,          \* that response carried the items of the one before
    exit_status,        \* how the latest finished run ended
    hist_written,       \* history: the clock reading of the latest write, or None
    hist_loaded,        \* history: what the state file was when the run read it
    hist_requests,      \* history: the requests the current run has sent
    hist_fetched_at,    \* history: the clock reading when the 200 response came
    hist_cap_written,   \* history: MAX_TOTAL_STORED of the run of the latest write
    hist_same_cap       \* history: the current run has that MAX_TOTAL_STORED

vars == <<file, clock, pc, oks, fails, max_results, min_stars, max_total_stored,
          existing_data, stars_query, status_code, data, same_page, exit_status,
          hist_written, hist_loaded, hist_requests, hist_fetched_at,
          hist_cap_written, hist_same_cap>>

\* ---------------------------------------------------------------- values
NoneStamp == [kind |-> "none", t |-> 0]
IsoNow(t) == [kind |-> "iso", t |-> t]

NoSource == [type |-> "", query |-> <<>>, min_stars |-> 0]
NoData == [source |-> NoSource, last_updated |-> NoneStamp, count |-> 0,
           new_in_this_run |-> 0, total_available |-> 0, projects |-> <<>>]
AbsentFile == [kind |-> "absent", data |-> NoData]
JsonFile(d) == [kind |-> "json", data |-> d]

\* Python truthiness of an id (None and 0 are falsy).
Truthy(v) == v # None /\ v # 0
\* Python truthiness of a last_updated value (None and "" are falsy).
TruthyStamp(s) == s.kind \notin {"none", "empty"}

Min(a, b) == IF a < b THEN a ELSE b
Max(a, b) == IF a > b THEN a ELSE b

\* ------------------------------------------------------------- functions
\* Mutant of load_existing_data: whatever is left of an unreadable file is
\* salvaged instead of the exception being caught.
LoadSalvaging(f) ==
    IF f.kind = "absent" THEN [some |-> FALSE, data |-> NoData]
    ELSE [some |-> TRUE, data |-> f.data]

\* load_existing_data: None when the file does not exist or cannot be read.
load_existing_data(f) ==
    IF f.kind = "absent" THEN [some |-> FALSE, data |-> NoData]
    ELSE IF f.kind = "json" THEN [some |-> TRUE, data |-> f.data]
    ELSE [some |-> FALSE, data |-> NoData]

\* Mutants of format_datetime_for_search: the sub-second fraction is kept; the
\* parse error is not caught and any string yields a date.
FormatKeepsFraction(dt_str) == IF dt_str.kind = "iso" THEN dt_str.t ELSE None
FormatUnchecked(dt_str) == dt_str.t \div TicksPerSec

\* format_datetime_for_search: "YYYY-MM-DDTHH:MM:SS" of a parseable ISO
\* datetime (the sub-second fraction and the zone suffix are dropped), as the
\* whole second; None when datetime.fromisoformat raises.
format_datetime_for_search(dt_str) ==
    IF dt_str.kind = "iso" THEN dt_str.t \div TicksPerSec ELSE None

\* stars_query, lines 63-69.
StarsClause(ms) == [k |-> "stars", v |-> IF ms > 0 THEN ms ELSE 0]
BuildQuery(ms, lu) ==
    IF TruthyStamp(lu) /\ format_datetime_for_search(lu) # None
    THEN <<StarsClause(ms), [k |-> "pushed", v |-> format_datetime_for_search(lu)]>>
    ELSE <<StarsClause(ms)>>

\* seen_ids of line 54.
SeenIdsOf(projects) ==
    {projects[i].id : i \in {j \in 1 .. Len(projects) : Truthy(projects[j].id)}}

\* The projection of lines 116-132.
NewRepo(repo) == [id |-> repo.id, updated_at |-> repo.updated_at]

\* The loop of lines 111-134 over rs, from the accumulator acc
\* (new_repos, new_count, seen_ids).
RECURSIVE Dedup(_, _)
Dedup(rs, acc) ==
    IF rs = <<>> THEN acc
    ELSE LET repo == Head(rs)
         IN IF repo.id \notin acc.seen_ids
            THEN Dedup(Tail(rs),
                       [new_repos |-> Append(acc.new_repos, NewRepo(repo)),
                        new_count |-> acc.new_count + 1,
                        seen_ids |-> acc.seen_ids \cup {repo.id}])
            ELSE Dedup(Tail(rs), acc)

\* key=lambda x: x.get("updated_at") or ""
SortKey(x) == IF x.updated_at = None THEN 0 ELSE x.updated_at

\* Mutant of InsertDesc: the sort without reverse=True.
RECURSIVE InsertNoReverse(_, _)
InsertNoReverse(s, x) ==
    IF s = <<>> THEN <<x>>
    ELSE IF SortKey(Head(s)) <= SortKey(x)
         THEN <<Head(s)>> \o InsertNoReverse(Tail(s), x)
         ELSE <<x>> \o s

\* Mutant of InsertDesc: a descending sort that is not stable (an entry goes
\* in front of the entries of equal key).
RECURSIVE InsertBeforeTies(_, _)
InsertBeforeTies(s, x) ==
    IF s = <<>> THEN <<x>>
    ELSE IF SortKey(Head(s)) > SortKey(x)
         THEN <<Head(s)>> \o InsertBeforeTies(Tail(s), x)
         ELSE <<x>> \o s

\* list.sort(key=..., reverse=True): stable, descending.
RECURSIVE InsertDesc(_, _)
InsertDesc(s, x) ==
    IF s = <<>> THEN <<x>>
    ELSE IF SortKey(Head(s)) >= SortKey(x)
         THEN <<Head(s)>> \o InsertDesc(Tail(s), x)
         ELSE <<x>> \o s
RECURSIVE SortDesc(_)
SortDesc(s) ==
    IF s = <<>> THEN <<>>
    ELSE InsertDesc(SortDesc(SubSeq(s, 1, Len(s) - 1)), s[Len(s)])

\* Mutant of Slice: s[-n:], the last n entries.
SliceTail(s, n) == SubSeq(s, Max(Len(s) - n, 0) + 1, Len(s))

\* Python s[:n].
Slice(s, n) ==
    IF n >= 0 THEN SubSeq(s, 1, Min(n, Len(s)))
    ELSE SubSeq(s, 1, Max(Len(s) + n, 0))

\* Mutant of Truncate: the slice is one entry too long.
TruncateOffByOne(s, cap) == IF Len(s) > cap THEN Slice(s, cap + 1) ELSE s

\* Lines 145-147.
Truncate(s, cap) == IF Len(s) > cap THEN Slice(s, cap) ELSE s

\* Mutant of OutputData: last_updated is written to the whole second.
OutputDataWholeSeconds(query, ms, now, projects, nc, d) ==
    [source |-> [type |-> "github_search_repos", query |-> query, min_stars |-> ms],
     last_updated |-> IsoNow((now \div TicksPerSec) * TicksPerSec),
     count |-> Len(projects),
     new_in_this_run |-> nc,
     total_available |-> IF d.has_keys THEN d.total_count ELSE 0,
     projects |-> projects]

\* Mutant of OutputData: new_in_this_run counts the stored items.
OutputDataCountsStored(query, ms, now, projects, nc, d) ==
    [source |-> [type |-> "github_search_repos", query |-> query, min_stars |-> ms],
     last_updated |-> IsoNow(now),
     count |-> Len(projects),
     new_in_this_run |-> Len(projects),
     total_available |-> IF d.has_keys THEN d.total_count ELSE 0,
     projects |-> projects]

\* Lines 151-162.
OutputData(query, ms, now, projects, nc, d) ==
    [source |-> [type |-> "github_search_repos", query |-> query, min_stars |-> ms],
     last_updated |-> IsoNow(now),
     count |-> Len(projects),
     new_in_this_run |-> nc,
     total_available |-> IF d.has_keys THEN d.total_count ELSE 0,
     projects |-> projects]

\* ---------------------------------------------------------- locals of main
\* Lines 47-54.
last_updated == IF existing_data.some THEN existing_data.data.last_updated ELSE NoneStamp
existing_projects == IF existing_data.some THEN existing_data.data.projects ELSE <<>>
seen_ids == IF existing_data.some THEN SeenIdsOf(existing_projects) ELSE {}
\* Line 76.
per_page == Min(max_results, 100)
\* Line 101: data.get("items", []).
repos == IF data.has_keys THEN data.items ELSE <<>>
\* Lines 108-134.
Deduped == Dedup(repos, [new_repos |-> <<>>, new_count |-> 0, seen_ids |-> seen_ids])
new_repos == Deduped.new_repos
new_count == Deduped.new_count
\* Mutant of Sorted: the prior items are not merged in.
SortedFetchedOnly == SortDesc(new_repos)

\* Lines 139-147.
Sorted == SortDesc(new_repos \o existing_projects)
all_projects == Truncate(Sorted, max_total_stored)

\* ------------------------------------------------------------------ Init
Init ==
    /\ file = AbsentFile
    /\ clock = 0
    /\ pc = "idle"
    /\ oks = 0
    /\ fails = 0
    /\ \E e \in Envs : max_results = e.max_results /\ min_stars = e.min_stars
    /\ max_total_stored = 0
    /\ existing_data = [some |-> FALSE, data |-> NoData]
    /\ stars_query = <<>>
    /\ status_code = 0
    /\ data = NoKeys
    /\ same_page = FALSE
    /\ exit_status = "none"
    /\ hist_written = None
    /\ hist_loaded = "none"
    /\ hist_requests = <<>>
    /\ hist_fetched_at = None
    /\ hist_cap_written = 0
    /\ hist_same_cap = FALSE

\* --------------------------------------------------------------- actions
\* The wall clock advances.
Tick ==
    /\ clock < MaxClock
    /\ clock' = clock + 1
    /\ UNCHANGED <<file, pc, oks, fails, max_results, min_stars, max_total_stored,
                   existing_data, stars_query, status_code, data, same_page,
                   exit_status, hist_written,
                   hist_loaded, hist_requests, hist_fetched_at, hist_cap_written, hist_same_cap>>

\* Lines 40-88: configuration, prior state, query and request parameters.
Start ==
    /\ pc = "idle"
    /\ oks < MaxRuns \/ fails < MaxFails
    /\ \E cap \in Caps :
        /\ max_total_stored' = cap
        /\ hist_same_cap' = (hist_written # None /\ cap = hist_cap_written)
    /\ existing_data' = load_existing_data(file)
    /\ hist_loaded' = file.kind
    /\ hist_requests' = <<>>
    /\ hist_fetched_at' = None
    /\ stars_query' =
         LET ed == load_existing_data(file)
         IN BuildQuery(min_stars, IF ed.some THEN ed.data.last_updated ELSE NoneStamp)
    /\ status_code' = 0
    /\ pc' = "fetch"
    /\ UNCHANGED <<file, clock, oks, fails, max_results, min_stars, data, same_page,
                   exit_status, hist_written, hist_cap_written>>

\* Lines 72-90: the GET of the search endpoint with params.
Request ==
    [q |-> stars_query, sort |-> "updated", order |-> "desc",
     per_page |-> per_page, page |-> 1]

\* Line 90 raises (timeout, connection error): the run ends with a traceback.
FetchTransportError ==
    /\ pc = "fetch"
    /\ fails < MaxFails
    /\ hist_requests' = Append(hist_requests, Request)
    /\ fails' = fails + 1
    /\ pc' = "idle"
    /\ exit_status' = "exception"
    /\ UNCHANGED <<file, clock, oks, max_results, min_stars, max_total_stored,
                   existing_data, stars_query, status_code, data, same_page,
                   hist_written,
                   hist_loaded, hist_fetched_at, hist_cap_written, hist_same_cap>>

\* Mutant of FetchRateLimit: the state file is rewritten before the exit.
FetchRateLimitWrites ==
    /\ pc = "fetch"
    /\ fails < MaxFails
    /\ hist_requests' = Append(hist_requests, Request)
    /\ fails' = fails + 1
    /\ status_code' = 403
    /\ file' = JsonFile(OutputData(stars_query, min_stars, clock, existing_projects,
                                   0, NoKeys))
    /\ pc' = "idle"
    /\ exit_status' = "exit_1"
    /\ UNCHANGED <<clock, oks, max_results, min_stars, max_total_stored,
                   existing_data, stars_query, data, same_page, hist_written,
                   hist_loaded, hist_fetched_at, hist_cap_written, hist_same_cap>>

\* Lines 90-97: the response is a 403, sys.exit(1).
FetchRateLimit ==
    /\ pc = "fetch"
    /\ fails < MaxFails
    /\ hist_requests' = Append(hist_requests, Request)
    /\ fails' = fails + 1
    /\ status_code' = 403
    /\ pc' = "idle"
    /\ exit_status' = "exit_1"
    /\ UNCHANGED <<file, clock, oks, max_results, min_stars, max_total_stored,
                   existing_data, stars_query, data, same_page, hist_written,
                   hist_loaded, hist_fetched_at, hist_cap_written, hist_same_cap>>

\* Lines 90-99: another 4xx or 5xx status, raise_for_status() raises.
FetchHttpError ==
    /\ pc = "fetch"
    /\ fails < MaxFails
    /\ hist_requests' = Append(hist_requests, Request)
    /\ fails' = fails + 1
    /\ \E code \in ErrorCodes \ {403} : status_code' = code
    /\ pc' = "idle"
    /\ exit_status' = "exception"
    /\ UNCHANGED <<file, clock, oks, max_results, min_stars, max_total_stored,
                   existing_data, stars_query, data, same_page, hist_written,
                   hist_loaded, hist_fetched_at, hist_cap_written, hist_same_cap>>

\* Mutant of FetchOk: a second page is requested when the first one is full.
FetchOkNextPage ==
    /\ pc = "fetch"
    /\ oks < MaxRuns
    /\ oks' = oks + 1
    /\ status_code' = 200
    /\ \E d \in Responses :
        /\ data' = d
        /\ same_page' = (oks > 0 /\ d.items = repos)
        /\ hist_requests' =
             IF d.total_count > Len(d.items)
             THEN hist_requests \o <<Request, [Request EXCEPT !.page = 2]>>
             ELSE Append(hist_requests, Request)
    /\ hist_fetched_at' = clock
    /\ pc' = "merge"
    /\ UNCHANGED <<file, clock, fails, max_results, min_stars, max_total_stored,
                   existing_data, stars_query, exit_status, hist_written,
                   hist_loaded, hist_cap_written, hist_same_cap>>

\* Lines 90-101: a 200 response, data = resp.json().
FetchOk ==
    /\ pc = "fetch"
    /\ oks < MaxRuns
    /\ hist_requests' = Append(hist_requests, Request)
    /\ hist_fetched_at' = clock
    /\ oks' = oks + 1
    /\ status_code' = 200
    /\ \E d \in Responses :
        /\ data' = d
        /\ same_page' = (oks > 0 /\ d.items = repos)
    /\ pc' = "merge"
    /\ UNCHANGED <<file, clock, fails, max_results, min_stars, max_total_stored,
                   existing_data, stars_query, exit_status, hist_written,
                   hist_loaded, hist_cap_written, hist_same_cap>>

\* Mutant of MergeAndWrite: count is taken before the truncation.
MergeAndWriteCountsMerged ==
    /\ pc = "merge"
    /\ file' = JsonFile([OutputData(stars_query, min_stars, clock, all_projects,
                                    new_count, data) EXCEPT !.count = Len(Sorted)])
    /\ hist_written' = clock
    /\ hist_cap_written' = max_total_stored
    /\ pc' = "idle"
    /\ exit_status' = "ok"
    /\ UNCHANGED <<clock, oks, fails, max_results, min_stars, max_total_stored,
                   existing_data, stars_query, status_code, data, same_page,
                   hist_loaded, hist_requests, hist_fetched_at, hist_same_cap>>

\* Mutant of MergeAndWrite: the wall clock is not read again, the watermark
\* the run started from is written back.
MergeAndWriteOldStamp ==
    /\ pc = "merge"
    /\ file' = JsonFile(OutputData(stars_query, min_stars,
                                   IF TruthyStamp(last_updated) THEN last_updated.t ELSE 0,
                                   all_projects, new_count, data))
    /\ hist_written' = clock
    /\ hist_cap_written' = max_total_stored
    /\ pc' = "idle"
    /\ exit_status' = "ok"
    /\ UNCHANGED <<clock, oks, fails, max_results, min_stars, max_total_stored,
                   existing_data, stars_query, status_code, data, same_page,
                   hist_loaded, hist_requests, hist_fetched_at, hist_same_cap>>

\* Lines 103-167: dedup, merge, sort, truncate, then output_data (which reads
\* the wall clock) and the write of the state file.
MergeAndWrite ==
    /\ pc = "merge"
    /\ file' = JsonFile(OutputData(stars_query, min_stars, clock, all_projects,
                                   new_count, data))
    /\ hist_written' = clock
    /\ hist_cap_written' = max_total_stored
    /\ pc' = "idle"
    /\ exit_status' = "ok"
    /\ UNCHANGED <<clock, oks, fails, max_results, min_stars, max_total_stored,
                   existing_data, stars_query, status_code, data, same_page,
                   hist_loaded, hist_requests, hist_fetched_at, hist_same_cap>>

Next ==
    \/ Tick
    \/ Start
    \/ FetchTransportError
    \/ FetchRateLimit
    \/ FetchHttpError
    \/ FetchOk
    \/ MergeAndWrite

Spec == Init /\ [][Next]_vars

\* Between two runs somebody edits the state file: last_updated becomes a
\* string that is no timestamp ("not-a-date"), or the empty string.  (Edits
\* are tried while a later run can still merge over them.)
TamperWatermark ==
    /\ pc = "idle"
    /\ oks < MaxRuns
    /\ file.kind = "json"
    /\ file.data.last_updated.kind = "iso"
    /\ \E k \in {"text", "empty"} :
        file' = [file EXCEPT !.data.last_updated = [kind |-> k, t |-> 0]]
    /\ UNCHANGED <<clock, pc, oks, fails, max_results, min_stars, max_total_stored,
                   existing_data, stars_query, status_code, data, same_page,
                   exit_status, hist_written,
                   hist_loaded, hist_requests, hist_fetched_at, hist_cap_written, hist_same_cap>>

NextExt ==
    \/ Next
    \/ TamperWatermark

\* The collector with a state file that is edited between runs.
SpecExt == Init /\ [][NextExt]_vars

\* Between two runs the state file is damaged: it still exists, but reading it
\* or parsing it as JSON raises.  (data is what the file held before.)
CorruptFile ==
    /\ pc = "idle"
    /\ oks < MaxRuns
    /\ file.kind = "json"
    /\ file' = [file EXCEPT !.kind = "corrupt"]
    /\ UNCHANGED <<clock, pc, oks, fails, max_results, min_stars, max_total_stored,
                   existing_data, stars_query, status_code, data, same_page,
                   exit_status, hist_written,
                   hist_loaded, hist_requests, hist_fetched_at, hist_cap_written, hist_same_cap>>

NextCorrupt ==
    \/ Next
    \/ CorruptFile

\* The collector with a state file that is damaged between runs.
SpecCorrupt == Init /\ [][NextCorrupt]_vars

\* The write of lines 164-165 step by step.  Lines 103-164: dedup, merge,
\* sort, truncate, output_data, then open(out_path, "w"), which empties the
\* file; data is the output_data that json.dump is about to write into it.
MergeAndOpen ==
    /\ pc = "merge"
    /\ file' = [kind |-> "partial",
                data |-> OutputData(stars_query, min_stars, clock, all_projects,
                                    new_count, data)]
    /\ pc' = "dump"
    /\ UNCHANGED <<clock, oks, fails, max_results, min_stars, max_total_stored,
                   existing_data, stars_query, status_code, data, same_page,
                   exit_status, hist_written,
                   hist_loaded, hist_requests, hist_fetched_at, hist_cap_written, hist_same_cap>>

\* Line 165 to the end of the with block: json.dump writes output_data and the
\* file is closed.
Dump ==
    /\ pc = "dump"
    /\ file' = JsonFile(file.data)
    /\ hist_written' = file.data.last_updated.t
    /\ hist_cap_written' = max_total_stored
    /\ pc' = "idle"
    /\ exit_status' = "ok"
    /\ UNCHANGED <<clock, oks, fails, max_results, min_stars, max_total_stored,
                   existing_data, stars_query, status_code, data, same_page,
                   hist_loaded, hist_requests, hist_fetched_at, hist_same_cap>>

\* Line 165 does not finish: the write raises (disk full, I/O error) or the
\* process is killed, and the run ends with the file as it is.
DumpInterrupted ==
    /\ pc = "dump"
    /\ fails < MaxFails
    /\ fails' = fails + 1
    /\ pc' = "idle"
    /\ exit_status' = "exception"
    /\ UNCHANGED <<file, clock, oks, max_results, min_stars, max_total_stored,
                   existing_data, stars_query, status_code, data, same_page,
                   hist_written,
                   hist_loaded, hist_requests, hist_fetched_at, hist_cap_written, hist_same_cap>>

NextWrite ==
    \/ Tick
    \/ Start
    \/ FetchTransportError
    \/ FetchRateLimit
    \/ FetchHttpError
    \/ FetchOk
    \/ MergeAndOpen
    \/ Dump
    \/ DumpInterrupted

\* The collector with the write of the state file taken step by step.
SpecWrite == Init /\ [][NextWrite]_vars

\* ---------------------------------------------------------------- claims
\* The persisted items, and the states in which a run has just ended.
Stored == file.data.projects
AfterOk == pc = "idle" /\ exit_status = "ok"
AfterFail == pc = "idle" /\ exit_status \in {"exit_1", "exception"}
HadPrior == existing_data.some
Prior == existing_data.data
IdsOf(s) == {s[i].id : i \in 1 .. Len(s)}
WithId(s, id) == {s[i] : i \in {j \in 1 .. Len(s) : s[j].id = id}}
NoDupIds(s) == \A i, j \in 1 .. Len(s) : i # j => s[i].id # s[j].id

\* C1 (as claimed): after every successful run no id occurs on two entries of
\* the persisted items, whatever the pages fetched and for every id, 0 included.
C1_Dedup == AfterOk => NoDupIds(Stored)

\* C2 (as claimed): a run whose fetch returns the same items as the successful
\* fetch before it keeps zero items as new, for every page and every cap.
C2_RerunKeepsNone == (AfterOk /\ same_page) => file.data.new_in_this_run = 0

\* C3 (as claimed): every state written by a run holds at most
\* max_total_stored items, for every integer max_total_stored.
C3_BoundedAnyCap == AfterOk => Len(Stored) <= max_total_stored

\* C3 (amended): every state written by a run with max_total_stored >= 0 holds
\* at most max_total_stored items, whatever the prior state and the page.
C3_Bounded == (AfterOk /\ max_total_stored >= 0) => Len(Stored) <= max_total_stored

\* A run with a cap >= 0 that found more stored items than the cap allows
\* (written under a larger cap), fetched new ones, and has written its state.
C3_Witness ==
    /\ AfterOk
    /\ max_total_stored >= 0
    /\ HadPrior
    /\ Len(Prior.projects) > max_total_stored
    /\ new_count > 0

\* C4: after every successful run the persisted items are in descending order
\* of updated_at, a missing or empty updated_at counting as the empty string
\* (the least value, so such items come last).
StampOrEmpty(x) == IF x.updated_at \in {None, 0} THEN 0 ELSE x.updated_at
C4_SortedDesc ==
    AfterOk => \A i, j \in 1 .. Len(Stored) :
                   i < j => StampOrEmpty(Stored[i]) >= StampOrEmpty(Stored[j])

\* A run has stored an item without updated_at after a dated one although the
\* merged sequence (new items, then prior items) had them the other way round.
C4_Witness ==
    /\ AfterOk
    /\ Len(Stored) >= 2
    /\ Stored[1].updated_at >= 1
    /\ Stored[Len(Stored)].updated_at = None
    /\ LET m == new_repos \o existing_projects
       IN \E i, j \in 1 .. Len(m) : i < j /\ StampOrEmpty(m[i]) < StampOrEmpty(m[j])

\* C5: a run whose fetch fails (403, another error status, a transport error)
\* ends with the state file as the run found it: the same contents, or absent.
C5_FailedRunKeepsFile ==
    AfterFail => IF HadPrior THEN file = JsonFile(Prior) ELSE file = AbsentFile

\* A run has failed on a 403 with a state file present before it.
C5_Witness == AfterFail /\ status_code = 403 /\ file.kind = "json" /\ Len(Stored) > 0

\* C6 (as claimed): after a fetch of zero items the state written equals the
\* prior state in every field but last_updated, new_in_this_run (0) and
\* total_available (the response's), so in projects, count and source too.
C6_EmptyFetchNoOp ==
    (AfterOk /\ HadPrior /\ repos = <<>>) =>
        file.data = [Prior EXCEPT
                        !.last_updated = file.data.last_updated,
                        !.new_in_this_run = 0,
                        !.total_available =
                            IF data.has_keys THEN data.total_count ELSE 0]

\* C6 (amended): after a fetch of zero items new_in_this_run is 0,
\* total_available is the response's (0 without the key), last_updated is the
\* clock reading of this run, projects is the prior projects cut to this run's
\* cap (the prior projects themselves when the cap is at least their number),
\* count is their number, and source holds this run's query, which carries
\* the time filter of the prior watermark.
IsPrefix(s, t) == Len(s) <= Len(t) /\ s = SubSeq(t, 1, Len(s))
PushedClauses(q) == {i \in 1 .. Len(q) : q[i].k = "pushed"}
C6_EmptyFetch ==
    (AfterOk /\ HadPrior /\ repos = <<>>) =>
        /\ file.data.new_in_this_run = 0
        /\ file.data.total_available = (IF data.has_keys THEN data.total_count ELSE 0)
        /\ file.data.last_updated.kind = "iso"
        /\ file.data.last_updated.t >= Prior.last_updated.t
        /\ file.data.last_updated.t <= clock
        /\ IsPrefix(Stored, Prior.projects)
        /\ max_total_stored >= Len(Prior.projects) => Stored = Prior.projects
        /\ file.data.count = Len(Stored)
        /\ \E i \in 1 .. Len(file.data.source.query) :
              /\ PushedClauses(file.data.source.query) = {i}
              /\ file.data.source.query[i].v = Prior.last_updated.t \div TicksPerSec

\* A run has fetched nothing over a prior state of two items and kept both;
\* the source and the total_available it wrote differ from the prior ones.
C6_Witness ==
    /\ AfterOk /\ HadPrior /\ repos = <<>>
    /\ Len(Prior.projects) = 2
    /\ Stored = Prior.projects
    /\ file.data.source # Prior.source
    /\ file.data.total_available # Prior.total_available

\* C7 (as claimed): for every fetched item whose id is the id of a prior item,
\* the fetched version is discarded: every entry stored with that id after the
\* run is a prior copy, field for field.
C7_DuplicateKeepsPriorCopy ==
    (AfterOk /\ HadPrior) =>
        \A i \in 1 .. Len(repos) :
            repos[i].id \in IdsOf(Prior.projects) =>
                WithId(Stored, repos[i].id) \subseteq WithId(Prior.projects, repos[i].id)

\* C8 (as claimed): the items persisted are exactly the first max_total_stored
\* entries of the merged sequence sorted by updated_at descending (none of
\* them when max_total_stored is below 1).
FirstN(s, n) == SubSeq(s, 1, Min(n, Len(s)))
C8_KeepsFirstCapAny == AfterOk => Stored = FirstN(Sorted, max_total_stored)

\* C8 (amended): with max_total_stored >= 0 the items persisted are exactly
\* the first max_total_stored entries of the merged sequence sorted by
\* updated_at descending; for every cap the persisted items are drawn from the
\* merged ones and every discarded item has an updated_at at most that of
\* every retained item; with cap 1, no prior state and distinct fetched ids
\* the one stored item carries the latest fetched timestamp.
Merged == new_repos \o existing_projects
Count(s, v) == Cardinality({i \in 1 .. Len(s) : s[i] = v})
RangeOf(s) == {s[i] : i \in 1 .. Len(s)}
MaxStampOf(s) == CHOOSE m \in {StampOrEmpty(s[i]) : i \in 1 .. Len(s)} :
                    \A i \in 1 .. Len(s) : StampOrEmpty(s[i]) <= m
C8_KeepsNewest ==
    AfterOk =>
        /\ max_total_stored >= 0 =>
              /\ Stored = FirstN(Sorted, max_total_stored)
              /\ Len(Stored) = Min(max_total_stored, Len(Merged))
        /\ \A v \in RangeOf(Stored) : Count(Stored, v) <= Count(Merged, v)
        /\ \A v \in RangeOf(Merged) :
              Count(Merged, v) > Count(Stored, v) =>
                  \A i \in 1 .. Len(Stored) : StampOrEmpty(v) <= StampOrEmpty(Stored[i])
        /\ (max_total_stored = 1 /\ ~HadPrior /\ repos # <<>> /\ NoDupIds(repos)) =>
              /\ Len(Stored) = 1
              /\ StampOrEmpty(Stored[1]) = MaxStampOf(repos)

\* A first run with cap 1 has fetched two items, the older one first, and has
\* stored the newer one alone.
C8_Witness ==
    /\ AfterOk /\ ~HadPrior /\ max_total_stored = 1
    /\ Len(repos) = 2 /\ NoDupIds(repos)
    /\ StampOrEmpty(repos[1]) < StampOrEmpty(repos[2])
    /\ Stored = <<NewRepo(repos[2])>>

\* C9: while a run is under way its query holds no time filter when no run has
\* written a state before it, and otherwise exactly one, whose value is the
\* clock reading of the latest write cut to whole seconds; the prior state the
\* run loaded is that write's, whatever runs failed since.
C9_Watermark ==
    pc \in {"fetch", "merge"} =>
        IF hist_written = None
        THEN ~HadPrior /\ PushedClauses(stars_query) = {}
        ELSE /\ HadPrior
             /\ Prior.last_updated = IsoNow(hist_written)
             /\ \E i \in 1 .. Len(stars_query) :
                   /\ PushedClauses(stars_query) = {i}
                   /\ stars_query[i].v = hist_written \div TicksPerSec

\* The run after a failed run is under way; the write before them happened
\* off a whole second, and the query carries its second.
C9_Witness ==
    /\ pc = "merge"
    /\ exit_status \in {"exit_1", "exception"}
    /\ hist_written # None
    /\ hist_written % TicksPerSec # 0
    /\ PushedClauses(stars_query) # {}

\* C10: a run that loaded a prior state whose last_updated is present but no
\* timestamp issues the minimum-popularity clause alone, and when its fetch
\* succeeds it writes a state that records that query, the merged items, their
\* count and the number of new ones.
BadWatermark == HadPrior /\ Prior.last_updated.kind \in {"text", "empty"}
C10_BadWatermark ==
    /\ (BadWatermark /\ pc \in {"fetch", "merge"}) =>
          stars_query = <<[k |-> "stars", v |-> IF min_stars > 0 THEN min_stars ELSE 0]>>
    /\ (BadWatermark /\ AfterOk) =>
          /\ file.kind = "json"
          /\ file.data.source.query =
                <<[k |-> "stars", v |-> IF min_stars > 0 THEN min_stars ELSE 0]>>
          /\ Stored = all_projects
          /\ file.data.count = Len(Stored)
          /\ file.data.new_in_this_run = new_count

\* A run over a prior state with last_updated "not-a-date" has fetched a new
\* item, merged it with the prior ones and written the state.
C10_Witness ==
    /\ AfterOk
    /\ HadPrior /\ Prior.last_updated.kind = "text"
    /\ Len(Prior.projects) > 0
    /\ new_count > 0
    /\ Len(Stored) > Len(Prior.projects)

\* C11 A state file that exists but cannot be read or parsed does not stop the
\* run: it goes on as a first run does, with no known id, no watermark and a
\* query without time filter, and the state it writes is made of the fetched
\* items alone.
FirstRunOf(page) == Dedup(page, [new_repos |-> <<>>, new_count |-> 0, seen_ids |-> {}])
C11_CorruptPriorIsFirstRun ==
    /\ (pc \in {"fetch", "merge"} /\ hist_loaded = "corrupt") =>
          /\ ~HadPrior
          /\ seen_ids = {}
          /\ last_updated = NoneStamp
          /\ stars_query = <<[k |-> "stars", v |-> IF min_stars > 0 THEN min_stars ELSE 0]>>
    /\ (AfterOk /\ hist_loaded = "corrupt" /\ file.kind = "json") =>
          /\ file.data.source.query =
                <<[k |-> "stars", v |-> IF min_stars > 0 THEN min_stars ELSE 0]>>
          /\ IdsOf(Stored) \subseteq IdsOf(repos)
          /\ RangeOf(Stored) \subseteq {NewRepo(repos[i]) : i \in 1 .. Len(repos)}
          /\ Stored = Truncate(SortDesc(FirstRunOf(repos).new_repos), max_total_stored)
          /\ file.data.new_in_this_run = FirstRunOf(repos).new_count
C11_Witness ==
    /\ AfterOk
    /\ hist_loaded = "corrupt"
    /\ file.kind = "json"
    /\ oks = 2
    /\ Len(Stored) = 2
    /\ file.data.new_in_this_run = 2

\* C12 The state file is rewritten atomically: at every point of a run, a
\* failure during the write included, the file is the complete prior state (or
\* is not there yet) or the complete new state, so that the next run reads a
\* valid state.
C12_AtomicRewrite ==
    /\ file.kind \in {"absent", "json"}
    /\ pc \in {"fetch", "merge", "dump"} =>
          \/ file = (IF HadPrior THEN JsonFile(Prior) ELSE AbsentFile)
          \/ file = JsonFile(OutputData(stars_query, min_stars, file.data.last_updated.t,
                                        all_projects, new_count, data))

\* C13 The watermark a successful run writes is never older than the one it
\* read, and it is strictly later whenever the wall clock has advanced since
\* the previous successful run wrote its own (here: the clock had passed the
\* watermark read by the time the page arrived).
C13_WatermarkAdvances ==
    (AfterOk /\ HadPrior) =>
        /\ file.data.last_updated.kind = "iso"
        /\ Prior.last_updated.kind = "iso"
        /\ file.data.last_updated.t >= Prior.last_updated.t
        /\ hist_fetched_at > Prior.last_updated.t =>
              file.data.last_updated.t > Prior.last_updated.t
C13_Witness ==
    /\ AfterOk
    /\ HadPrior
    /\ fails = 1
    /\ hist_fetched_at > Prior.last_updated.t
    /\ file.data.last_updated.t = Prior.last_updated.t + 1
    /\ file.data.last_updated.t \div TicksPerSec = Prior.last_updated.t \div TicksPerSec

\* C14 Ties keep their order: the stored items of one sort key are, in order,
\* the first of the merged items of that key, that is the newly kept items in
\* the order they were fetched, then the prior items in the order they were
\* stored.
WithKey(s, k) == SelectSeq(s, LAMBDA x : StampOrEmpty(x) = k)
RECURSIVE IsSubSeq(_, _)
IsSubSeq(a, b) ==
    IF a = <<>> THEN TRUE
    ELSE IF b = <<>> THEN FALSE
    ELSE IF Head(a) = Head(b) THEN IsSubSeq(Tail(a), Tail(b))
    ELSE IsSubSeq(a, Tail(b))
Projected(page) == [i \in 1 .. Len(page) |-> NewRepo(page[i])]
C14_StableTies ==
    AfterOk =>
        /\ IsSubSeq(new_repos, Projected(repos))
        /\ \A k \in 0 .. MaxStamp :
              /\ IsPrefix(WithKey(Stored, k),
                          WithKey(new_repos, k) \o WithKey(existing_projects, k))
              /\ Len(Stored) = Len(new_repos) + Len(existing_projects) =>
                    WithKey(Stored, k) = WithKey(new_repos, k) \o WithKey(existing_projects, k)
C14_Witness ==
    /\ AfterOk
    /\ HadPrior
    /\ Len(new_repos) = 2
    /\ Len(existing_projects) = 1
    /\ new_repos[1] # new_repos[2]
    /\ existing_projects[1] \notin {new_repos[1], new_repos[2]}
    /\ StampOrEmpty(new_repos[1]) = StampOrEmpty(new_repos[2])
    /\ StampOrEmpty(new_repos[1]) = StampOrEmpty(existing_projects[1])
    /\ Stored = <<new_repos[1], new_repos[2]>>
    /\ max_total_stored = 2

\* C15 A run reads the state, sends one request (page 1, page size the
\* smaller of max_results and 100), computes, and writes: no request before
\* the state is read, no second request, and the state file is as the run read
\* it until a 200 response has arrived.
FileAsRead == IF HadPrior THEN JsonFile(Prior) ELSE AbsentFile
C15_OneFetchInOrder ==
    /\ Len(hist_requests) <= 1
    /\ \A i \in 1 .. Len(hist_requests) :
          /\ hist_requests[i].page = 1
          /\ hist_requests[i].per_page = (IF max_results < 100 THEN max_results ELSE 100)
          /\ hist_requests[i].q = stars_query
    /\ pc = "fetch" => (hist_requests = <<>> /\ file = FileAsRead)
    /\ pc = "merge" => (Len(hist_requests) = 1 /\ status_code = 200 /\ file = FileAsRead)
    /\ AfterFail => (Len(hist_requests) = 1 /\ file = FileAsRead)
    /\ AfterOk =>
          /\ Len(hist_requests) = 1
          /\ status_code = 200
          /\ hist_fetched_at # None
          /\ hist_written >= hist_fetched_at
C15_Witness ==
    /\ AfterOk
    /\ oks = 2
    /\ max_results = 150
    /\ hist_requests[1].per_page = 100
    /\ Len(repos) = MaxPage
    /\ data.total_count > Len(repos)
    /\ file # FileAsRead

\* C16 The last_updated a run writes is the wall clock read at the write,
\* after the page has arrived and been merged: it is never earlier than the
\* clock reading at which the 200 response came.
C16_StampAfterFetch ==
    AfterOk =>
        /\ file.data.last_updated.kind = "iso"
        /\ file.data.last_updated.t >= hist_fetched_at
        /\ file.data.last_updated.t = hist_written
        /\ file.data.last_updated.t <= clock
C16_Witness ==
    /\ AfterOk
    /\ HadPrior
    /\ hist_fetched_at > Prior.last_updated.t
    /\ file.data.last_updated.t > hist_fetched_at
    /\ clock = file.data.last_updated.t

\* C17 new_in_this_run is the number of fetched items whose id is neither
\* among the prior stored items nor earlier in the same page; it is counted
\* before truncation and is at most the number of fetched items.
FirstSeen(page, known) ==
    {i \in 1 .. Len(page) :
        /\ page[i].id \notin known
        /\ \A j \in 1 .. (i - 1) : page[j].id # page[i].id}
C17_NewCount ==
    AfterOk =>
        /\ file.data.new_in_this_run =
              Cardinality(FirstSeen(repos, IdsOf(existing_projects)))
        /\ file.data.new_in_this_run <= Len(repos)

\* C18 count is the length of the persisted item sequence, the one left
\* after truncation.
C18_CountIsStoredLength ==
    /\ file.kind = "json" => file.data.count = Len(file.data.projects)
    /\ AfterOk =>
          /\ file.data.count = Len(Stored)
          /\ file.data.count <= Len(new_repos) + Len(existing_projects)
          /\ max_total_stored >= 0 => file.data.count <= max_total_stored
C18_Witness ==
    /\ AfterOk
    /\ HadPrior
    /\ Len(new_repos) + Len(existing_projects) > Len(Stored)
    /\ file.data.count = 2
    /\ file.data.new_in_this_run = 1

\* C19 (as stated) Below the cap nothing is evicted: when the prior items and
\* the newly kept ones together are at most max_total_stored, every prior item
\* is still stored; an item leaves the store only by truncation; and with the
\* cap of the run that wrote the prior state, the stored count does not
\* decrease.
KeepsAllPrior == \A v \in RangeOf(Prior.projects) : Count(Stored, v) >= Count(Prior.projects, v)
C19_NoEvictionAnyCap ==
    (AfterOk /\ HadPrior) =>
        /\ Len(Prior.projects) + new_count <= max_total_stored => KeepsAllPrior
        /\ ~KeepsAllPrior => Len(new_repos) + Len(Prior.projects) > max_total_stored
        /\ hist_same_cap => Len(Stored) >= Len(Prior.projects)

\* C19 The same, the stored count not decreasing for a cap that is not
\* negative (with a negative cap every run cuts entries off the end).
C19_NoEviction ==
    (AfterOk /\ HadPrior) =>
        /\ Len(Prior.projects) + new_count <= max_total_stored => KeepsAllPrior
        /\ ~KeepsAllPrior => Len(new_repos) + Len(Prior.projects) > max_total_stored
        /\ (hist_same_cap /\ max_total_stored >= 0) => Len(Stored) >= Len(Prior.projects)
C19_Witness ==
    /\ AfterOk
    /\ HadPrior
    /\ hist_same_cap
    /\ max_total_stored = 2
    /\ Len(Prior.projects) = 1
    /\ new_count = 1
    /\ Len(Stored) = 2
    /\ Stored[1] = Prior.projects[1]
    /\ Stored[2] = new_repos[1]
    /\ Stored[1] # Stored[2]

====
